---- MODULE Spec2Model ----
(***************************************************************************)
(* Model of chat_exporter/chat_exporter.py: the export entry points        *)
(* (quick_export posting to the channel, export, the disk-writing          *)
(* quick_export, quick_link, link) running as coroutines against a chat    *)
(* platform client, a transcript builder and a file system.                *)
(*                                                                         *)
(* A coroutine runs without interruption between two awaits, so every      *)
(* action below is the code of one entry point from one suspension point   *)
(* to the next.  Text is modelled by TLA+ strings; f-strings and "+" are   *)
(* \o, "x in y" is a substring search, int(x) is a digit parser.           *)
(*                                                                         *)
(* The file defines quick_export three times.  The disk-writing one is the *)
(* last definition (lines 205-238); the one of lines 170-203 has the same  *)
(* steps around another builder call.  The posting one (lines 11-53) is    *)
(* modelled as an entry point of its own.                                  *)
(*                                                                         *)
(* The platform client does what discord.py documents: a lookup of an      *)
(* unknown id returns None, send adds a message to the channel, history    *)
(* yields the messages of the channel newest first, delete removes the     *)
(* message, and a delete of a message that is already gone raises NotFound *)
(* (a client that ignores it is allowed too).                              *)
(***************************************************************************)
EXTENDS Integers, Sequences, FiniteSets, TLC

(***************************************************************************)
(* Bounds of the model.                                                    *)
(***************************************************************************)
MaxMsgs == 2        \* messages in the initial history of channel 1
MaxAtt == 2         \* attachments of the message that carries several

Calls == {1, 2}     \* concurrently running entry-point calls

(***************************************************************************)
(* Optional values: <<>> is Python's None, <<v>> is the value v.           *)
(***************************************************************************)
None == <<>>
Some(v) == <<v>>

(***************************************************************************)
(* Text helpers.                                                           *)
(***************************************************************************)
\* Python's "needle in hay" on str
Contains(hay, needle) ==
    \E i \in 0..(Len(hay) - Len(needle)) :
        SubSeq(hay, i + 1, i + Len(needle)) = needle

\* str(x) as an f-string applies it to an Optional[str]
Str(opt) == IF opt = None THEN "None" ELSE opt[1]

Digits == <<"0", "1", "2", "3", "4", "5", "6", "7", "8", "9">>
IsDigit(ch) == \E d \in 1..10 : Digits[d] = ch
DigitVal(ch) == (CHOOSE d \in 1..10 : Digits[d] = ch) - 1

RECURSIVE ParseDigits(_, _)
ParseDigits(s, acc) ==
    IF s = "" THEN acc
    ELSE ParseDigits(SubSeq(s, 2, Len(s)), acc * 10 + DigitVal(SubSeq(s, 1, 1)))

\* int(x) of an Optional[str]: the number, or the exception it raises
\* (TypeError for None, ValueError for a text that is no number).  The texts
\* the calls are given are decimal digits or hold no digit at all.
IntOf(opt) ==
    IF opt = None THEN [ok |-> FALSE, val |-> 0, exc |-> "TypeError"]
    ELSE IF opt[1] = "" \/ \E i \in 1..Len(opt[1]) : ~IsDigit(SubSeq(opt[1], i, i))
         THEN [ok |-> FALSE, val |-> 0, exc |-> "ValueError"]
         ELSE [ok |-> TRUE, val |-> ParseDigits(opt[1], 0), exc |-> ""]

(***************************************************************************)
(* The platform: one guild with two text channels.  0 stands for the None  *)
(* a lookup returns for an unknown identifier.                             *)
(***************************************************************************)
GuildIds == {1}
Channels == {1, 2}
ChannelName(ch) == IF ch = 1 THEN "support" ELSE "support-"

get_guild(gid) == IF gid \in GuildIds THEN gid ELSE 0
get_channel(g, cid) == IF g \in GuildIds /\ cid \in Channels THEN cid ELSE 0

(***************************************************************************)
(* Attachments and messages.  A message whose attachments cannot be        *)
(* iterated (iterable = FALSE) makes "for f in m.attachments" raise        *)
(* TypeError.                                                              *)
(***************************************************************************)
Att(fname) == [filename |-> fname, url |-> "https://cdn.example.com/" \o fname]
Msg(mid, atts) == [id |-> mid, iterable |-> TRUE, attachments |-> atts]
BadMsg(mid) == [id |-> mid, iterable |-> FALSE, attachments |-> <<>>]

\* the attachment lists the initial messages of channel 1 are drawn from
AttLists ==
    { <<>>,
      <<Att("a.html"), Att("transcript-support.html")>>,
      <<Att("old-transcript-support-.html")>>,
      [k \in 1..MaxAtt |-> Att("transcript-support.html")] }

MessagesWithId(mid) == {Msg(mid, a) : a \in AttLists} \cup {BadMsg(mid)}

\* histories of n messages with the ids 1..n, newest first
RECURSIVE HistoriesOfLen(_)
HistoriesOfLen(n) ==
    IF n = 0 THEN {<<>>}
    ELSE {<<m>> \o h : h \in HistoriesOfLen(n - 1), m \in MessagesWithId(n)}

Histories == UNION {HistoriesOfLen(n) : n \in 0..MaxMsgs}

Ids(hist) == {hist[k].id : k \in 1..Len(hist)}

RECURSIVE Without(_, _)
Without(hist, mid) ==
    IF hist = <<>> THEN <<>>
    ELSE IF hist[1].id = mid THEN Without(Tail(hist), mid)
    ELSE <<hist[1]>> \o Without(Tail(hist), mid)

(***************************************************************************)
(* Calls.  kind is the entry point; guild, channel and ticket_id are the   *)
(* str parameters of the disk-writing quick_export; chan and gobj are the  *)
(* channel and guild objects the other entry points are given.             *)
(***************************************************************************)
Disk(g, ch, t) ==
    [kind |-> "disk", guild |-> g, channel |-> ch, ticket_id |-> t, chan |-> 0, gobj |-> 0]
Other(kind, ch, g) ==
    [kind |-> kind, guild |-> None, channel |-> None, ticket_id |-> None, chan |-> ch, gobj |-> g]

Invocations ==
    << Disk(Some("1"), Some("1"), Some("42")),
       Disk(Some("1"), Some("1"), Some("-42")),
       Disk(Some("1"), Some("2"), Some("42")),
       Disk(Some("1"), Some("1"), None),
       Disk(Some("7"), Some("1"), Some("42")),
       Disk(Some("1"), Some("7"), Some("42")),
       Disk(None, Some("1"), Some("42")),
       Disk(Some("1"), Some("x"), Some("42")),
       Other("post", 1, 0),
       Other("post", 1, 1),
       Other("export", 1, 1),
       Other("link", 1, 0),
       Other("quick_link", 1, 0) >>

\* the two calls are interchangeable: one of each pair of invocations
InvocationPairs ==
    UNION {{[c \in Calls |-> IF c = 1 THEN Invocations[i] ELSE Invocations[j]] :
                j \in i..Len(Invocations)} : i \in 1..Len(Invocations)}

\* what the transcript builder returns as .html to call c when it does not
\* raise: nothing, or a document (no two calls get the same document)
BuilderResults(c) == {"", "<html>transcript " \o ToString(c) \o "</html>"}

Ev(op, id, text) == [op |-> op, id |-> id, text |-> text]

VARIABLES
    history,        \* channel -> the messages in it, newest first
    nextId,         \* id of the next message the platform creates
    channelGuild,   \* channel -> its .guild attribute (0 when not set)
    files,          \* the files written so far, as [path, content]
    args,           \* call -> its invocation
    pc,             \* call -> where the coroutine is suspended
    guildv,         \* call -> local variable guild (0 for None)
    channelv,       \* call -> local variable channel (0 for None)
    transcript,     \* call -> local variable transcript
    snapshot,       \* call -> the messages channel.history() yields
    pos,            \* call -> <<message, attachment>> of the pending delete
    exc,            \* call -> the exception that left the call, "" if none
    message,        \* call -> <<the message parameter>> of link and quick_link
    embed,          \* call -> description of the embed being sent
    result,         \* call -> the value returned, None while there is none
    log             \* call -> what the call has done, in order

vars == <<history, nextId, channelGuild, files, args, pc, guildv, channelv,
          transcript, snapshot, pos, exc, message, embed, result, log>>

Init ==
    /\ history \in {[ch \in Channels |-> IF ch = 1 THEN h ELSE <<Msg(100, <<Att("old-transcript-support-.html")>>)>>] : h \in Histories}
    /\ nextId = 200
    /\ channelGuild = [ch \in Channels |-> 0]
    /\ files = {}
    /\ args \in InvocationPairs
    /\ pc = [c \in Calls |-> "init"]
    /\ guildv = [c \in Calls |-> 0]
    /\ channelv = [c \in Calls |-> 0]
    /\ transcript = [c \in Calls |-> ""]
    /\ snapshot = [c \in Calls |-> <<>>]
    /\ pos = [c \in Calls |-> <<0, 0>>]
    /\ exc = [c \in Calls |-> ""]
    /\ message = [c \in Calls |-> None]
    /\ embed = [c \in Calls |-> ""]
    /\ result = [c \in Calls |-> None]
    /\ log = [c \in Calls |-> <<>>]

Set(f, c, v) == [f EXCEPT ![c] = v]
Logged(c, evs) == [log EXCEPT ![c] = @ \o evs]

\* a write that leaves an existing file alone
WriteFileExclusive(fs, path, content) ==
    IF \E f \in fs : f.path = path THEN fs
    ELSE fs \cup {[path |-> path, content |-> content]}

\* open(path, "w") followed by f.write(content)
WriteFile(fs, path, content) ==
    {f \in fs : f.path # path} \cup {[path |-> path, content |-> content]}

\* channel.send(...) as the platform completes it: a new message in the channel
Delivered(ch, atts) ==
    [history EXCEPT ![ch] = <<Msg(nextId, atts)>> \o @]

(***************************************************************************)
(* quick_export(channel, guild, ticket_id, client), the disk-writing one   *)
(***************************************************************************)
\* IsOldTranscript without the ".html" of the searched name
IsOldTranscriptNoSuffix(fname, name) == Contains(fname, "transcript-" \o name)

\* f"transcript-{channel.name}.html" in f.filename
IsOldTranscript(fname, name) == Contains(fname, "transcript-" \o name \o ".html")

\* ticket_name, and the path open() is given
ticket_name(name, ticket_id) ==
    "transcript-" \o name \o "---" \o Str(ticket_id) \o "---.html"
TranscriptPath(name, ticket_id) ==
    "/var/www/html/transcripts/" \o ticket_name(name, ticket_id)

\* Resolve with the channel looked up before the guild
ResolveChannelFirst(a) ==
    LET g == IntOf(a.guild)
        gv == get_guild(g.val)
        ch == IntOf(a.channel)
    IN  IF ~ch.ok
        THEN [ok |-> FALSE, exc |-> ch.exc, guild |-> 0, channel |-> 0, ev |-> <<>>]
        ELSE IF ~g.ok
        THEN [ok |-> FALSE, exc |-> g.exc, guild |-> 0, channel |-> 0,
              ev |-> <<Ev("get_channel", ch.val, "")>>]
        ELSE [ok |-> gv # 0, exc |-> IF gv = 0 THEN "AttributeError" ELSE "",
              guild |-> gv, channel |-> get_channel(gv, ch.val),
              ev |-> <<Ev("get_channel", ch.val, "guild " \o ToString(gv)),
                       Ev("get_guild", g.val, "")>>]

\* The two lookups, up to the first exception: what they do, in order, and
\* the values of guild and channel afterwards.
Resolve(a) ==
    LET g == IntOf(a.guild)
        gv == get_guild(g.val)
        ch == IntOf(a.channel)
    IN  IF ~g.ok
        THEN [ok |-> FALSE, exc |-> g.exc, guild |-> 0, channel |-> 0, ev |-> <<>>]
        ELSE IF gv = 0
        THEN [ok |-> FALSE, exc |-> "AttributeError", guild |-> 0, channel |-> 0,
              ev |-> <<Ev("get_guild", g.val, "")>>]
        ELSE IF ~ch.ok
        THEN [ok |-> FALSE, exc |-> ch.exc, guild |-> gv, channel |-> 0,
              ev |-> <<Ev("get_guild", g.val, "")>>]
        ELSE [ok |-> TRUE, exc |-> "", guild |-> gv, channel |-> get_channel(gv, ch.val),
              ev |-> <<Ev("get_guild", g.val, ""), Ev("get_channel", ch.val, "guild " \o ToString(gv))>>]

\* lines 211-216: the lookups, then export() up to the await of the builder.
\* With channel None, "channel.guild = guild" in export raises inside the try
\* and "channel.send" in the handler raises again, which leaves the call.
DiskStart(c) ==
    /\ pc[c] = "init"
    /\ args[c].kind = "disk"
    /\ LET r == Resolve(args[c]) IN
       /\ guildv' = Set(guildv, c, r.guild)
       /\ channelv' = Set(channelv, c, r.channel)
       /\ IF ~r.ok
          THEN /\ pc' = Set(pc, c, "raised")
               /\ exc' = Set(exc, c, r.exc)
               /\ log' = Logged(c, r.ev)
               /\ UNCHANGED channelGuild
          ELSE IF r.channel = 0
          THEN /\ pc' = Set(pc, c, "raised")
               /\ exc' = Set(exc, c, "AttributeError")
               /\ log' = Logged(c, r.ev \o <<Ev("print_exc", 0, "")>>)
               /\ UNCHANGED channelGuild
          ELSE /\ pc' = Set(pc, c, "building")
               /\ channelGuild' = Set(channelGuild, r.channel, r.guild)
               /\ log' = Logged(c, r.ev \o <<Ev("builder", r.channel, "")>>)
               /\ UNCHANGED exc
    /\ UNCHANGED <<history, nextId, files, args, transcript, snapshot, pos, embed, result, message>>

\* The cleanup loop from attachment j of message i of the snapshot, up to the
\* next "await m.delete()" or to the end of the history.
RECURSIVE Scan(_, _, _, _)
Scan(snap, name, i, j) ==
    IF i > Len(snap) THEN [at |-> "end", i |-> i, j |-> 0, ev |-> <<>>]
    ELSE LET m == snap[i]
             seen == IF j = 1 THEN <<Ev("inspect", m.id, "")>> ELSE <<>>
         IN  IF ~m.iterable
             THEN LET r == Scan(snap, name, i + 1, 1)
                  IN  [r EXCEPT !.ev = seen \o <<Ev("TypeError", m.id, "")>> \o @]
             ELSE IF j > Len(m.attachments)
             THEN LET r == Scan(snap, name, i + 1, 1)
                  IN  [r EXCEPT !.ev = seen \o @]
             ELSE IF IsOldTranscript(m.attachments[j].filename, name)
             THEN [at |-> "delete", i |-> i, j |-> j,
                   ev |-> seen \o <<Ev("delete", m.id, "")>>]
             ELSE LET r == Scan(snap, name, i, j + 1)
                  IN  [r EXCEPT !.ev = seen \o @]

\* Cleanup with the file written before the loop instead of after it
CleanupWriteFirst(c, snap, i, j) ==
    LET name == ChannelName(channelv[c])
        r == Scan(snap, name, i, j)
        path == TranscriptPath(name, args[c].ticket_id)
        first == IF i = 1 /\ j = 1 THEN <<Ev("write", 0, path)>> ELSE <<>>
    IN  /\ pc' = Set(pc, c, IF r.at = "delete" THEN "deleting" ELSE "done")
        /\ pos' = Set(pos, c, <<r.i, r.j>>)
        /\ log' = Logged(c, first \o r.ev)
        /\ files' = IF i = 1 /\ j = 1 THEN WriteFile(files, path, transcript[c]) ELSE files

\* lines 228-238 from position <<i, j>>: the loop, and after it the write
Cleanup(c, snap, i, j) ==
    LET name == ChannelName(channelv[c])
        r == Scan(snap, name, i, j)
        path == TranscriptPath(name, args[c].ticket_id)
    IN  IF r.at = "delete"
        THEN /\ pc' = Set(pc, c, "deleting")
             /\ pos' = Set(pos, c, <<r.i, r.j>>)
             /\ log' = Logged(c, r.ev)
             /\ UNCHANGED files
        ELSE /\ pc' = Set(pc, c, "done")
             /\ pos' = Set(pos, c, <<r.i, r.j>>)
             /\ log' = Logged(c, r.ev \o <<Ev("write", 0, path)>>)
             /\ files' = WriteFile(files, path, transcript[c])

\* line 216 returns: the builder's .html
DiskBuilt(c) ==
    /\ pc[c] = "building"
    /\ args[c].kind = "disk"
    /\ \E html \in BuilderResults(c) :
        /\ transcript' = Set(transcript, c, html)
        /\ log' = Logged(c, <<Ev("built", 0, html)>>)
    /\ pc' = Set(pc, c, "fetching")
    /\ UNCHANGED <<history, nextId, channelGuild, files, args, guildv, channelv,
                   snapshot, pos, exc, embed, result, message>>

\* line 216 raises: lines 217-224 up to the await of channel.send
DiskBuildFailed(c) ==
    /\ pc[c] = "building"
    /\ args[c].kind = "disk"
    /\ pc' = Set(pc, c, "sending")
    /\ log' = Logged(c, <<Ev("builder raised", 0, ""), Ev("print_exc", 0, "")>>)
    /\ UNCHANGED <<history, nextId, channelGuild, files, args, guildv, channelv,
                   transcript, snapshot, pos, exc, embed, result, message>>

\* DiskErrorSent without the return of line 226
DiskErrorSentNoReturn(c) ==
    /\ pc[c] = "sending"
    /\ args[c].kind = "disk"
    /\ history' = Delivered(channelv[c], <<>>)
    /\ nextId' = nextId + 1
    /\ log' = Logged(c, <<Ev("send", nextId, "Transcript Generation Failed!"),
                          Ev("print", 0, "")>>)
    /\ pc' = Set(pc, c, "fetching")
    /\ UNCHANGED <<channelGuild, files, args, guildv, channelv, transcript,
                   snapshot, pos, exc, embed, result, message>>

\* line 224 returns: lines 225-226
DiskErrorSent(c) ==
    /\ pc[c] = "sending"
    /\ args[c].kind = "disk"
    /\ history' = Delivered(channelv[c], <<>>)
    /\ nextId' = nextId + 1
    /\ log' = Logged(c, <<Ev("send", nextId, "Transcript Generation Failed!"),
                          Ev("print", 0, "")>>)
    /\ pc' = Set(pc, c, "done")
    /\ UNCHANGED <<channelGuild, files, args, guildv, channelv, transcript,
                   snapshot, pos, exc, embed, result, message>>

\* line 228: channel.history(limit=None) yields the messages now in the channel
DiskHistory(c) ==
    /\ pc[c] = "fetching"
    /\ args[c].kind = "disk"
    /\ snapshot' = Set(snapshot, c, history[channelv[c]])
    /\ Cleanup(c, history[channelv[c]], 1, 1)
    /\ UNCHANGED <<history, nextId, channelGuild, args, guildv, channelv,
                   transcript, exc, embed, result, message>>

\* line 232 returns: the message is gone (a delete of a message that is
\* already gone may also return, on a client that ignores it), and the loop
\* goes on with the next attachment of the same message
DiskDeleted(c) ==
    /\ pc[c] = "deleting"
    /\ history' = [history EXCEPT ![channelv[c]] = Without(@, snapshot[c][pos[c][1]].id)]
    /\ Cleanup(c, snapshot[c], pos[c][1], pos[c][2] + 1)
    /\ UNCHANGED <<nextId, channelGuild, args, guildv, channelv, transcript,
                   snapshot, exc, embed, result, message>>

\* line 232 raises: the message is already gone and the platform answers
\* NotFound, which is no TypeError and leaves the call
DiskDeleteFailed(c) ==
    /\ pc[c] = "deleting"
    /\ snapshot[c][pos[c][1]].id \notin Ids(history[channelv[c]])
    /\ pc' = Set(pc, c, "raised")
    /\ exc' = Set(exc, c, "NotFound")
    /\ log' = Logged(c, <<Ev("delete raised", snapshot[c][pos[c][1]].id, "")>>)
    /\ UNCHANGED <<history, nextId, channelGuild, files, args, guildv, channelv,
                   transcript, snapshot, pos, embed, result, message>>

(***************************************************************************)
(* quick_export(channel, guild, bot), which posts the transcript to the     *)
(* channel, and export(channel, ...), which returns it                     *)
(***************************************************************************)
\* lines 25-42 and 84-101: up to the await of the builder
ExportStart(c) ==
    /\ pc[c] = "init"
    /\ args[c].kind \in {"post", "export"}
    /\ channelv' = Set(channelv, c, args[c].chan)
    /\ guildv' = Set(guildv, c, args[c].gobj)
    /\ channelGuild' = IF args[c].gobj # 0
                       THEN Set(channelGuild, args[c].chan, args[c].gobj)
                       ELSE channelGuild
    /\ log' = Logged(c, <<Ev("builder", args[c].chan, "")>>)
    /\ pc' = Set(pc, c, "building")
    /\ UNCHANGED <<history, nextId, files, args, transcript, snapshot, pos, exc,
                   embed, result, message>>

\* the builder raises: neither function catches it
ExportBuildFailed(c) ==
    /\ pc[c] = "building"
    /\ args[c].kind \in {"post", "export"}
    /\ pc' = Set(pc, c, "raised")
    /\ exc' = Set(exc, c, "Exception")
    /\ log' = Logged(c, <<Ev("builder raised", 0, "")>>)
    /\ UNCHANGED <<history, nextId, channelGuild, files, args, guildv, channelv,
                   transcript, snapshot, pos, embed, result, message>>

\* lines 87-101: export returns the builder's .html
ExportBuilt(c) ==
    /\ pc[c] = "building"
    /\ args[c].kind = "export"
    /\ \E html \in BuilderResults(c) :
        /\ transcript' = Set(transcript, c, html)
        /\ result' = Set(result, c, Some(html))
        /\ log' = Logged(c, <<Ev("built", 0, html)>>)
    /\ pc' = Set(pc, c, "done")
    /\ UNCHANGED <<history, nextId, channelGuild, files, args, guildv, channelv,
                   snapshot, pos, exc, embed, message>>

\* "if not transcript" on a str
Falsy(text) == text = ""

\* lines 28-53 after the builder returned, up to the await of channel.send
PostBuilt(c) ==
    /\ pc[c] = "building"
    /\ args[c].kind = "post"
    /\ \E html \in BuilderResults(c) :
        /\ transcript' = Set(transcript, c, html)
        /\ log' = Logged(c, <<Ev("built", 0, html)>>)
        /\ IF Falsy(html)
           THEN /\ pc' = Set(pc, c, "done")
                /\ UNCHANGED embed
           ELSE /\ pc' = Set(pc, c, "sending")
                /\ embed' = Set(embed, c, "**Transcript Name:** transcript-"
                                           \o ChannelName(channelv[c]) \o "\n\n")
    /\ UNCHANGED <<history, nextId, channelGuild, files, args, guildv, channelv,
                   snapshot, pos, exc, result, message>>

\* line 53 returns: the message with the embed and the file is in the channel
PostSent(c) ==
    /\ pc[c] = "sending"
    /\ args[c].kind = "post"
    /\ LET fname == "transcript-" \o ChannelName(channelv[c]) \o ".html" IN
       /\ history' = Delivered(channelv[c], <<Att(fname)>>)
       /\ log' = Logged(c, <<Ev("send", nextId, embed[c]),
                             Ev("send file", nextId, transcript[c])>>)
    /\ nextId' = nextId + 1
    /\ result' = Set(result, c, Some(ToString(nextId)))
    /\ pc' = Set(pc, c, "done")
    /\ UNCHANGED <<channelGuild, files, args, guildv, channelv, transcript,
                   snapshot, pos, exc, embed, message>>

(***************************************************************************)
(* link(message) and quick_link(channel, message)                          *)
(***************************************************************************)
\* message.attachments[-1] instead
LastAttachment(m) == m.attachments[Len(m.attachments)]

\* message.attachments[0]
FirstAttachment(m) == m.attachments[1]

\* line 249
link(m) == "https://mahto.id/chat-exporter?url=" \o FirstAttachment(m).url

\* lines 161-163: the description of the embed
LinkDescription(m) ==
    "[Click here to view the transcript](https://mahto.id/chat-exporter?url="
        \o FirstAttachment(m).url \o ")"

\* what message.attachments[0] raises, "" when it raises nothing
SubscriptError(m) ==
    IF ~m.iterable THEN "TypeError"
    ELSE IF m.attachments = <<>> THEN "IndexError"
    ELSE ""

\* link(message), for a message of the channel
LinkCall(c) ==
    /\ pc[c] = "init"
    /\ args[c].kind = "link"
    /\ \E k \in 1..Len(history[args[c].chan]) :
        LET m == history[args[c].chan][k] IN
        /\ message' = Set(message, c, Some(m))
        /\ log' = Logged(c, <<Ev("message", m.id, "")>>)
        /\ IF SubscriptError(m) # ""
           THEN /\ pc' = Set(pc, c, "raised")
                /\ exc' = Set(exc, c, SubscriptError(m))
                /\ UNCHANGED result
           ELSE /\ pc' = Set(pc, c, "done")
                /\ result' = Set(result, c, Some(link(m)))
                /\ UNCHANGED exc
    /\ UNCHANGED <<history, nextId, channelGuild, files, args, guildv, channelv,
                   transcript, snapshot, pos, embed>>

\* lines 159-167 up to the await of channel.send
QuickLinkStart(c) ==
    /\ pc[c] = "init"
    /\ args[c].kind = "quick_link"
    /\ channelv' = Set(channelv, c, args[c].chan)
    /\ \E k \in 1..Len(history[args[c].chan]) :
        LET m == history[args[c].chan][k] IN
        /\ message' = Set(message, c, Some(m))
        /\ log' = Logged(c, <<Ev("message", m.id, "")>>)
        /\ IF SubscriptError(m) # ""
           THEN /\ pc' = Set(pc, c, "raised")
                /\ exc' = Set(exc, c, SubscriptError(m))
                /\ UNCHANGED embed
           ELSE /\ pc' = Set(pc, c, "sending")
                /\ embed' = Set(embed, c, LinkDescription(m))
                /\ UNCHANGED exc
    /\ UNCHANGED <<history, nextId, channelGuild, files, args, guildv,
                   transcript, snapshot, pos, result>>

\* line 167 returns
QuickLinkSent(c) ==
    /\ pc[c] = "sending"
    /\ args[c].kind = "quick_link"
    /\ history' = Delivered(channelv[c], <<>>)
    /\ log' = Logged(c, <<Ev("send", nextId, embed[c])>>)
    /\ nextId' = nextId + 1
    /\ result' = Set(result, c, Some(ToString(nextId)))
    /\ pc' = Set(pc, c, "done")
    /\ UNCHANGED <<channelGuild, files, args, guildv, channelv, transcript,
                   snapshot, pos, exc, embed, message>>

Next ==
    \E c \in Calls :
        \/ DiskStart(c)
        \/ DiskBuilt(c)
        \/ DiskBuildFailed(c)
        \/ DiskErrorSent(c)
        \/ DiskHistory(c)
        \/ DiskDeleted(c)
        \/ DiskDeleteFailed(c)
        \/ ExportStart(c)
        \/ ExportBuildFailed(c)
        \/ ExportBuilt(c)
        \/ PostBuilt(c)
        \/ PostSent(c)
        \/ LinkCall(c)
        \/ QuickLinkStart(c)
        \/ QuickLinkSent(c)

Spec == Init /\ [][Next]_vars

(***************************************************************************)
(* Vocabulary of the properties                                            *)
(***************************************************************************)
DiskCalls == {c \in Calls : args[c].kind = "disk"}
Steps(c, op) == {i \in 1..Len(log[c]) : log[c][i].op = op}
Did(c, op) == Steps(c, op) # {}
Returned(c) == pc[c] = "done"
Ended(c) == pc[c] \in {"done", "raised"}
\* the text an f-string puts in for ticket_id
TicketText(c) == IF args[c].ticket_id = <<>> THEN "None" ELSE args[c].ticket_id[1]
ExpectedPath(c) ==
    "/var/www/html/transcripts/transcript-" \o ChannelName(channelv[c]) \o "---"
        \o TicketText(c) \o "---.html"
\* some attachment of m has a filename containing transcript-{name of ch}.html
HasOldTranscript(m, ch) ==
    /\ m.iterable
    /\ \E j \in 1..Len(m.attachments) :
          LET f == m.attachments[j].filename
              n == "transcript-" \o ChannelName(ch) \o ".html"
          IN  \E k \in 1..Len(f) : k + Len(n) - 1 <= Len(f) /\ SubSeq(f, k, k + Len(n) - 1) = n

(***************************************************************************)
(* C1.  A disk-writing quick_export whose transcript builder raised sends   *)
(* exactly one message, the "Transcript Generation Failed!" embed, to the  *)
(* channel, never scans, deletes or writes a file, and returns without     *)
(* raising.                                                                *)
(***************************************************************************)
C1_BuilderFailureIsReported ==
    \A c \in DiskCalls :
        Did(c, "builder raised") =>
            /\ pc[c] \in {"sending", "done"}
            /\ exc[c] = ""
            /\ ~Did(c, "write") /\ ~Did(c, "delete") /\ ~Did(c, "inspect")
            /\ \A f \in files : \E d \in DiskCalls \ {c} : Did(d, "write")
            /\ Cardinality(Steps(c, "send")) = (IF Returned(c) THEN 1 ELSE 0)
            /\ \A i \in Steps(c, "send") :
                  /\ log[c][i].text = "Transcript Generation Failed!"
                  /\ \E k \in 1..Len(history[channelv[c]]) :
                        /\ history[channelv[c]][k].id = log[c][i].id
                        /\ history[channelv[c]][k].attachments = <<>>

C1_Witness ==
    \E c \in DiskCalls :
        Did(c, "builder raised") /\ Returned(c) /\ Did(c, "send") /\ files = {}

(***************************************************************************)
(* C2.  As claimed: every disk-writing quick_export whose builder returned *)
(* writes, by the time it ends, exactly one file, at                       *)
(* /var/www/html/transcripts/transcript-{name}---{ticket_id}---.html.      *)
(***************************************************************************)
C2_OneFileAtThePath ==
    \A c \in DiskCalls :
        (Did(c, "built") /\ Ended(c)) =>
            /\ Cardinality(Steps(c, "write")) = 1
            /\ \A i \in Steps(c, "write") : log[c][i].text = ExpectedPath(c)
            /\ \E f \in files : f.path = ExpectedPath(c)

C3_DeletesOnlyOldTranscripts ==
    \A c \in DiskCalls :
        \A i \in Steps(c, "delete") :
            \E k \in 1..Len(snapshot[c]) :
                /\ snapshot[c][k].id = log[c][i].id
                /\ HasOldTranscript(snapshot[c][k], channelv[c])

C3_OthersStay ==
    \A ch \in Channels :
        \A k \in 1..Len(history[ch]) :
            ~HasOldTranscript(history[ch][k], ch) =>
                \E n \in 1..Len(history'[ch]) : history'[ch][n] = history[ch][k]

(***************************************************************************)
(* C3.  The cleanup requests the deletion only of messages one of whose    *)
(* attachments has a filename containing transcript-{channel.name}.html,   *)
(* and every other message of a channel (no attachment, attachments that   *)
(* cannot be iterated, only other filenames) stays in it unchanged.        *)
(***************************************************************************)
C3_CleanupFrame == [](C3_DeletesOnlyOldTranscripts) /\ [][C3_OthersStay]_vars

C3_Witness ==
    \E c \in DiskCalls :
        /\ Returned(c)
        /\ Did(c, "delete")
        /\ \E k \in 1..Len(snapshot[c]) :
              /\ snapshot[c][k].iterable
              /\ snapshot[c][k].attachments # <<>>
              /\ ~HasOldTranscript(snapshot[c][k], channelv[c])
              /\ \E n \in 1..Len(history[channelv[c]]) :
                    history[channelv[c]][n] = snapshot[c][k]

(***************************************************************************)
(* C4.  For a message with at least one attachment, link returns           *)
(* "https://mahto.id/chat-exporter?url=" followed by the URL of the first  *)
(* attachment as it is, and quick_link sends one message whose embed       *)
(* holds that same string.                                                 *)
(***************************************************************************)
C4_LinkIsPrefixPlusFirstUrl ==
    \A c \in Calls :
        (args[c].kind \in {"link", "quick_link"} /\ message[c] # <<>>) =>
            LET m == message[c][1]
                has == m.iterable /\ Len(m.attachments) >= 1
                url == "https://mahto.id/chat-exporter?url=" \o m.attachments[1].url
            IN  /\ has <=> pc[c] # "raised"
                /\ (has /\ args[c].kind = "link") =>
                      /\ Returned(c)
                      /\ result[c] = <<url>>
                      /\ ~Did(c, "send")
                /\ (has /\ args[c].kind = "quick_link" /\ Returned(c)) =>
                      /\ Cardinality(Steps(c, "send")) = 1
                      /\ \A i \in Steps(c, "send") :
                            log[c][i].text = "[Click here to view the transcript](" \o url \o ")"

C4_Witness ==
    \E c, d \in Calls :
        /\ args[c].kind = "link" /\ Returned(c)
        /\ Len(message[c][1].attachments) >= 2
        /\ message[c][1].attachments[1].url = "https://cdn.example.com/a.html"
        /\ result[c] = <<"https://mahto.id/chat-exporter?url=https://cdn.example.com/a.html">>
        /\ args[d].kind = "quick_link" /\ Returned(d)
        /\ Len(message[d][1].attachments) >= 2

(***************************************************************************)
(* C5.  In a disk-writing quick_export the guild lookup comes first, the   *)
(* channel lookup second and on the guild the first lookup returned, and   *)
(* everything else (builder, traceback, messages sent, history scan,       *)
(* deletions, file write) comes after both.                                *)
(***************************************************************************)
C5_GuildThenChannelThenTheRest ==
    \A c \in DiskCalls :
        \A i \in 1..Len(log[c]) :
            /\ log[c][i].op = "get_guild" <=> i = 1
            /\ log[c][i].op = "get_channel" <=> i = 2
            /\ i = 1 => ToString(log[c][i].id) = args[c].guild[1]
            /\ i = 2 =>
                  /\ ToString(log[c][i].id) = args[c].channel[1]
                  /\ guildv[c] \in GuildIds
                  /\ guildv[c] = log[c][1].id
                  /\ log[c][i].text = "guild " \o ToString(guildv[c])

C5_Witness ==
    \E c \in DiskCalls :
        Returned(c) /\ Did(c, "delete") /\ Did(c, "write") /\ Did(c, "get_channel")

(***************************************************************************)
(* C6.  As claimed: when the builder returns an empty result, the call     *)
(* that consumes it puts no transcript file anywhere, and the posting      *)
(* quick_export sends nothing and returns None.                            *)
(***************************************************************************)
C6_EmptyResultMakesNoFile ==
    \A c \in Calls :
        (\E i \in Steps(c, "built") : log[c][i].text = "") =>
            /\ ~Did(c, "send file")
            /\ ~Did(c, "write")
            /\ args[c].kind = "post" => (~Did(c, "send") /\ result[c] = <<>>)

(***************************************************************************)
(* C7.  As claimed: after a TypeError on one message of the history, every *)
(* later message has been inspected, and deleted if it matches, and the    *)
(* file has been written, by the time the call ends; the TypeError does    *)
(* not leave the call.                                                     *)
(***************************************************************************)
C7_TypeErrorSkipsOneMessage ==
    \A c \in DiskCalls :
        \A k \in 1..Len(snapshot[c]) :
            (Ended(c) /\ \E i \in Steps(c, "TypeError") : log[c][i].id = snapshot[c][k].id) =>
                /\ exc[c] # "TypeError"
                /\ \A n \in (k + 1)..Len(snapshot[c]) :
                      /\ \E i \in Steps(c, "inspect") : log[c][i].id = snapshot[c][n].id
                      /\ HasOldTranscript(snapshot[c][n], channelv[c]) =>
                            \E i \in Steps(c, "delete") : log[c][i].id = snapshot[c][n].id
                /\ Did(c, "write")

(***************************************************************************)
(* C8.  In a disk-writing quick_export nothing of the cleanup (inspecting  *)
(* a message, a TypeError, a deletion) and no write happens before the     *)
(* builder has returned; after a builder failure none of them happens;     *)
(* the write is the last step and comes after the scan of the whole        *)
(* history the call was given, with all its deletions.                     *)
(***************************************************************************)
C8_BuildThenCleanupThenWrite ==
    \A c \in DiskCalls :
        /\ \A i \in 1..Len(log[c]) :
              log[c][i].op \in {"inspect", "TypeError", "delete", "delete raised", "write"} =>
                  \E b \in Steps(c, "built") :
                      /\ b < i
                      /\ \E a \in Steps(c, "builder") : a < b
        /\ Did(c, "builder raised") =>
              /\ ~Did(c, "built") /\ ~Did(c, "inspect") /\ ~Did(c, "delete")
              /\ ~Did(c, "write") /\ snapshot[c] = <<>>
        /\ \A w \in Steps(c, "write") :
              /\ w = Len(log[c])
              /\ \A k \in 1..Len(snapshot[c]) :
                    /\ \E i \in Steps(c, "inspect") : log[c][i].id = snapshot[c][k].id
                    /\ HasOldTranscript(snapshot[c][k], channelv[c]) =>
                          /\ \E i \in Steps(c, "delete") : log[c][i].id = snapshot[c][k].id
                          /\ snapshot[c][k].id \notin Ids(history[channelv[c]])

C8_Witness ==
    \E c \in DiskCalls :
        /\ Returned(c) /\ Did(c, "write")
        /\ Cardinality(Steps(c, "delete")) >= 2
        /\ Len(snapshot[c]) >= 2

(***************************************************************************)
(* C9.  As claimed: two disk-writing calls that differ in the channel name *)
(* or in the ticket id write different paths.                              *)
(***************************************************************************)
C9_DifferentTargetsDifferentPaths ==
    \A c, d \in DiskCalls :
        (/\ c # d /\ Did(c, "write") /\ Did(d, "write")
         /\ \/ ChannelName(channelv[c]) # ChannelName(channelv[d])
            \/ args[c].ticket_id # args[d].ticket_id) =>
            \A i \in Steps(c, "write"), j \in Steps(d, "write") :
                log[c][i].text # log[d][j].text

C9_Writers(path) ==
    {c \in DiskCalls : \E i \in Steps(c, "write") : log[c][i].text = path}

C9_FilesComeFromWriters ==
    /\ \A f, g \in files : f.path = g.path => f = g
    /\ \A f \in files : \E c \in C9_Writers(f.path) : f.content = transcript[c]
    /\ \A c \in DiskCalls : Did(c, "write") => \E f \in files : f.path = ExpectedPath(c)

C9_WriteOverwrites ==
    \A c \in DiskCalls :
        (~Did(c, "write") /\ Cardinality({i \in 1..Len(log'[c]) : log'[c][i].op = "write"}) > 0) =>
            /\ [path |-> ExpectedPath(c), content |-> transcript[c]] \in files'
            /\ \A f \in files : f.path # ExpectedPath(c) => f \in files'

(***************************************************************************)
(* C9, amended.  The write takes no lock: the step in which a call writes  *)
(* leaves that call's transcript at its path whatever was there, so of two *)
(* calls that write the same path the later write decides the content.     *)
(* A path holds one file, whose content is the transcript of a call that   *)
(* wrote that path, and of the only such call when the other call wrote    *)
(* another path or none.                                                   *)
(***************************************************************************)
C9_UnlockedWriteRace == [](C9_FilesComeFromWriters) /\ [][C9_WriteOverwrites]_vars

\* both calls wrote the same path, got different transcripts, and the file
\* holds the one of call 1
C9_Witness ==
    /\ DiskCalls = Calls
    /\ args[1] = args[2]
    /\ Did(1, "write") /\ Did(2, "write")
    /\ transcript[1] # transcript[2]
    /\ \E f \in files : f.path = ExpectedPath(1) /\ f.content = transcript[1]

\* the same, and the file holds the one of call 2
C9_WitnessOther ==
    /\ DiskCalls = Calls
    /\ args[1] = args[2]
    /\ Did(1, "write") /\ Did(2, "write")
    /\ transcript[1] # transcript[2]
    /\ \E f \in files : f.path = ExpectedPath(2) /\ f.content = transcript[2]

(***************************************************************************)
(* C10.  As claimed: one call requests the deletion of a message at most   *)
(* once.                                                                   *)
(***************************************************************************)
C10_AtMostOneDeletePerMessage ==
    \A c \in DiskCalls :
        \A i, j \in Steps(c, "delete") :
            log[c][i].id = log[c][j].id => i = j

====
